---- MODULE Spec2Model ----
(***************************************************************************)
(* libluavars: the Lua binding of the variable server client library.      *)
(*                                                                         *)
(* The model has one action per Lua-callable function of vars_lib          *)
(* (src/src/libluavars.c), one per host-runtime entry into the print       *)
(* session's close callback (stream close, garbage collection), and the    *)
(* variable server's own steps (raising validation and print requests,     *)
(* sending signals).  var.wait() is two steps: up to the point where the   *)
(* thread sleeps in sigwaitinfo, and from its return.                      *)
(*                                                                         *)
(* Every handler records what it did in three history variables:           *)
(*   op    - the function called and its arguments,                        *)
(*   calls - the library calls it issued, in program order,                *)
(*   ret   - the Lua values it returned (the top `result` stack values).   *)
(* The variable server library (libvarserver) and the Lua runtime are      *)
(* external to the repository; their behaviour is modelled next to the     *)
(* call sites that rely on it.                                             *)
(***************************************************************************)
EXTENDS Integers, Sequences, FiniteSets, TLC

(***************************************************************************)
(* Bounds of the model.                                                    *)
(***************************************************************************)
\* number of LuaPrintSession userdata objects the Lua state may allocate
MaxSess == 2
\* transaction ids the server hands out are 1..MaxTxn
MaxTxn == 2
\* number of __unload calls explored
MaxUnload == 2
\* number of signals that may be pending for the thread at a time
MaxPending == 2

(***************************************************************************)
(* Program constants.                                                      *)
(***************************************************************************)
\* static VARSERVER_HANDLE hVarServer = NULL
NULL == 0
\* the invalid variable handle
VAR_INVALID == 0
\* errno values used by the library calls
EOK == 0
ENOENT == 2
EIO == 5
EINVAL == 22
\* size of the local buffer a string value is fetched into (char buf[BUFSIZ])
BUFSIZ == 8192

\* the one connection object VARSERVER_Open can return in this process
ConnHandle == 1

\* Lua values
Nil == [t |-> "nil"]
Num(n) == [t |-> "number", n |-> n]
\* the number hi * 2^53 + lo: the 64-bit values a double cannot hold exactly
\* lie between 2^53 and 2^54, where doubles are 2 apart
Wide(hi, lo) == [t |-> "number", hi |-> hi, lo |-> lo]
Str(s) == [t |-> "string", s |-> s]
UData(u) == [t |-> "userdata", u |-> u]

SessObjs == 1..MaxSess
ServerTxnIds == 1..MaxTxn
\* ids a script may pass: 0, the server's ids, and one the server never issued
LuaTxnIds == 0..(MaxTxn + 1)

\* the variables the server holds: name -> handle
VarNames == {"a", "b"}
LuaNames == VarNames \cup {"zz"}
NameToHandle(name) == IF name = "a" THEN 1 ELSE IF name = "b" THEN 2 ELSE VAR_INVALID
VarHandles == {1, 2}
\* handles a script may pass as numbers
LuaHandles == {0, 1, 2, 3}
\* the value kinds of the server
VarTypes == {"VARTYPE_STR", "VARTYPE_INT16", "VARTYPE_UINT16", "VARTYPE_INT32",
             "VARTYPE_UINT32", "VARTYPE_INT64", "VARTYPE_UINT64", "VARTYPE_FLOAT"}
NumTypes == VarTypes \ {"VARTYPE_STR"}
\* the kinds that hold 64-bit integers
WideTypes == {"VARTYPE_INT64", "VARTYPE_UINT64"}
\* declared type of each server variable in the default configuration
DeclaredTypes == [h \in VarHandles |-> IF h = 1 THEN "VARTYPE_UINT16" ELSE "VARTYPE_STR"]
\* values of the model
NumVals == {0, 1}
StrVals == {"x", "y"}
\* a string of BUFSIZ characters (BUFSIZ + 1 bytes with its terminator), what
\* is left of it when cut to BUFSIZ - 1 characters, and what a read that runs
\* past the end of the buffer makes of it
LongText == "long"
CutText == "long-cut"
OverrunText == "long+garbage"
StrLen(s) ==
    CASE s = "" -> 0
      [] s = LongText -> BUFSIZ
      [] s = CutText -> BUFSIZ - 1
      [] s = OverrunText -> BUFSIZ + 1
      [] OTHER -> 1
\* the text of 2^53 + 1
WideText == "9007199254740993"
\* texts a script may pass to set
LuaTexts == {"0", "1", "x", WideText, LongText}
NotifyKinds == {"NOTIFY_MODIFIED", "NOTIFY_VALIDATE"}
Verdicts == {0, 1}

\* the signals var_wait puts in its mask
WatchedSignals == {"SIGRTMIN+5", "SIG_VAR_MODIFIED", "SIG_VAR_CALC", "SIG_VAR_PRINT",
                   "SIG_VAR_VALIDATE"}
\* the number of a signal as a Lua value
SigNum(sig) == [t |-> "number", sig |-> sig]
\* the signals the server and the timer may send: signal and sival_int
Signals == [sig : WatchedSignals, val : ServerTxnIds]
\* sigwaitinfo accepted no signal
NoSignal == [sig |-> "none", val |-> 0]
\* values an uninitialized siginfo_t may hold in sival_int
GarbageInts == {0, 99}

\* outcomes of undefined behaviour in a library call (a freed connection
\* handle, a null FILE pointer): the process dies, or the call returns an error
UBOutcomes == {"crash", "fail"}

VARIABLES
    loaded,        \* luaopen_libluavars has installed vars_lib in a Lua state
    varType,       \* server: declared type of each variable
    sigBlocked,    \* the watched signals are blocked in the thread's signal mask
    sigPending,    \* signals pending for the thread
    waiting,       \* the thread is blocked in sigwaitinfo
    hVarServer,    \* the static connection handle
    conn,          \* the connection object: "none", "open", "closed" (freed)
    nOpen,         \* successful VARSERVER_Open calls
    nClose,        \* VARSERVER_Close calls issued on the connection handle
    varVal,        \* server: value of each variable
    notif,         \* server: registered <<handle, kind>> notifications
    pendingVal,    \* server: pending validation requests, id -> request
    pendingPrint,  \* server: pending print requests, id -> variable handle
    srvPrint,      \* server: ids of open print channels
    sess,          \* the LuaPrintSession userdata objects
    hist,          \* per session object: what it was opened with, close counts
    streams,       \* open FILE streams of the process
    fds,           \* open descriptors the process received for print channels
    op, calls, ret,
    crashed        \* the process died in undefined behaviour

connVars == <<hVarServer, conn, nOpen, nClose>>
srvVars == <<varVal, notif, pendingVal, pendingPrint, srvPrint>>
sessVars == <<sess, hist, streams, fds>>
sigVars == <<sigBlocked, sigPending, waiting>>
vars == <<loaded, varType, sigBlocked, sigPending, waiting, hVarServer, conn, nOpen, nClose, varVal, notif, pendingVal,
          pendingPrint, srvPrint, sess, hist, streams, fds, op, calls, ret, crashed>>

NoReq == [pending |-> FALSE, hVar |-> VAR_INVALID, val |-> Nil]
NoSess == [st |-> "unalloc", closef |-> FALSE, f |-> NULL, fd |-> 0, id |-> 0, hVar |-> 0]
NoHist == [opened |-> FALSE, nSrvClose |-> 0, nRelease |-> 0]

\* declared type of the variable behind handle h
VarTypeOf(h) == IF h \in VarHandles THEN varType[h] ELSE "VARTYPE_INVALID"

\* the state after the library is loaded into a process, the server holding
\* variables of the given types
InitTyped(types) ==
    /\ loaded = FALSE
    /\ varType = types
    /\ sigBlocked = FALSE
    /\ sigPending = {}
    /\ waiting = FALSE
    /\ hVarServer = NULL
    /\ conn = "none"
    /\ nOpen = 0
    /\ nClose = 0
    /\ varVal = [h \in VarHandles |-> IF types[h] = "VARTYPE_STR" THEN Str("x") ELSE Num(0)]
    /\ notif = {}
    /\ pendingVal = [i \in ServerTxnIds |-> NoReq]
    /\ pendingPrint = [i \in ServerTxnIds |-> VAR_INVALID]
    /\ srvPrint = {}
    /\ sess = [s \in SessObjs |-> NoSess]
    /\ hist = [s \in SessObjs |-> NoHist]
    /\ streams = {}
    /\ fds = {}
    /\ op = [fn |-> "none"]
    /\ calls = <<>>
    /\ ret = <<>>
    /\ crashed = FALSE

Init == InitTyped(DeclaredTypes)

\* the same, variable "a" being of any numeric kind
InitKinds == \E k \in NumTypes : InitTyped([DeclaredTypes EXCEPT ![1] = k])

(***************************************************************************)
(* The library's view of the handle it is given.                           *)
(***************************************************************************)
\* what a library call finds behind the handle passed to it
HandleState(hs) == IF hs = NULL THEN "null" ELSE conn

\* the top n values of the Lua stack are what the caller receives
Returned(stack, n) == SubSeq(stack, Len(stack) - n + 1, Len(stack))

\* how a library call on handle hs proceeds: "ok" (the request reaches the
\* server), "fail" (the library rejects the handle), or "crash".  A null handle
\* is rejected by the library; a handle whose connection was closed is a
\* dangling pointer, and ub picks what its use does.
LibOutcome(hs, ub) ==
    CASE HandleState(hs) = "open" -> "ok"
      [] HandleState(hs) = "closed" -> ub
      [] OTHER -> "fail"

\* a handler that returned
Done(o, c, r) == op' = o /\ calls' = c /\ ret' = r /\ crashed' = FALSE
\* a handler in which the process died after issuing the calls c
Crash(o, c) == op' = o /\ calls' = c /\ ret' = <<>> /\ crashed' = TRUE

\* the functions of vars_lib can be called once the table exists, by a
\* thread that is not blocked in var_wait
Callable == loaded /\ ~crashed /\ ~waiting

(***************************************************************************)
(* Session handle: registration and teardown.                              *)
(***************************************************************************)
\* a registration that opens the connection whether or not one is held
LuaOpenOpens_always == TRUE

\* luaopen_libluavars calls VARSERVER_Open only while the handle is NULL
LuaOpenOpens == hVarServer = NULL

luaopen_libluavars(ok) ==
    /\ ~crashed /\ ~waiting
    /\ loaded' = TRUE
    /\ IF LuaOpenOpens
       THEN /\ calls' = <<[fn |-> "VARSERVER_Open"]>>
            /\ IF ok
               THEN /\ hVarServer' = ConnHandle
                    /\ conn' = "open"
                    /\ nOpen' = nOpen + 1
               ELSE UNCHANGED <<hVarServer, conn, nOpen>>
       ELSE /\ calls' = <<>>
            /\ UNCHANGED <<hVarServer, conn, nOpen>>
    /\ op' = [fn |-> "luaopen_libluavars"]
    /\ ret' = <<[t |-> "table"]>>
    /\ UNCHANGED <<varType, sigVars, nClose, crashed>>
    /\ UNCHANGED srvVars
    /\ UNCHANGED sessVars

global_unload(ub) ==
    /\ Callable
    /\ nClose < MaxUnload
    /\ LET o == [fn |-> "__unload"]
           c == <<[fn |-> "VARSERVER_Close", hs |-> hVarServer]>>
       IN IF hVarServer # NULL
          THEN /\ nClose' = nClose + 1
               /\ hVarServer' = hVarServer
               /\ IF conn = "open"
                  THEN conn' = "closed" /\ Done(o, c, <<>>)
                  ELSE /\ conn' = conn
                       /\ IF ub = "crash" THEN Crash(o, c) ELSE Done(o, c, <<>>)
          ELSE /\ Done(o, <<>>, <<>>)
               /\ UNCHANGED <<hVarServer, conn, nClose>>
    /\ UNCHANGED <<loaded, varType, sigVars, nOpen>>
    /\ UNCHANGED srvVars
    /\ UNCHANGED sessVars

(***************************************************************************)
(* Variable access: find, get, set, notify.                                *)
(***************************************************************************)
\* VAR_FindByName as the server answers it
FindByName(out, name) == IF out = "ok" THEN NameToHandle(name) ELSE VAR_INVALID

\* luaL_checklstring accepts a number and converts it in place to its text;
\* the handles of this library are pushed with lua_pushnumber and are floats
LuaNumberText(n) ==
    CASE n = 0 -> "0.0"
      [] n = 1 -> "1.0"
      [] n = 2 -> "2.0"
      [] OTHER -> "3.0"
ToLuaString(arg) == IF arg.t = "string" THEN arg.s ELSE LuaNumberText(arg.n)

\* lua_pushnumber takes a lua_Number, a double: a 64-bit integer is converted
\* to the nearest double, a tie going to the even mantissa
ToLuaNumber(v) ==
    IF "hi" \in DOMAIN v
    THEN CASE v.lo % 4 = 1 -> Wide(v.hi, v.lo - 1)
           [] v.lo % 4 = 3 -> Wide(v.hi, v.lo + 1)
           [] OTHER -> v
    ELSE v

\* what the server side of a value fetch may do: fail, or deliver; a string
\* that does not fit the buffer is cut and terminated, copied up to the last
\* byte of the buffer without a terminator, or rejected
FetchOutcomes == {"fail", "truncate", "fill", "reject"}
\* what a read that runs past the end of the buffer does
ReadOutcomes == {"crash", "overrun"}

\* the library delivering value v into a VarObject whose string buffer holds
\* len bytes: status, value found in the VarObject, bytes written to the
\* buffer, and whether the buffer holds a terminator
Fetch(v, len, fo) ==
    LET isStr == v.t = "string"
        stale == IF isStr THEN Str("") ELSE Num(0)
    IN IF fo = "fail"
       THEN [rc |-> EIO, val |-> stale, wrote |-> 0, term |-> TRUE]
       ELSE IF ~isStr
            THEN [rc |-> EOK, val |-> v, wrote |-> 0, term |-> TRUE]
            ELSE IF StrLen(v.s) + 1 <= len
                 THEN [rc |-> EOK, val |-> v, wrote |-> StrLen(v.s) + 1, term |-> TRUE]
                 ELSE CASE fo = "truncate" ->
                               [rc |-> EOK, val |-> Str(CutText), wrote |-> len, term |-> TRUE]
                        [] fo = "fill" ->
                               [rc |-> EOK, val |-> v, wrote |-> len, term |-> FALSE]
                        [] OTHER ->
                               [rc |-> EINVAL, val |-> stale, wrote |-> 0, term |-> TRUE]

\* the length the handlers declare for the buffer they pass (var.len)
VarLen == BUFSIZ

\* lua_pushstring reads the buffer up to the first terminator it meets
PushString(d) == IF d.term THEN d.val ELSE Str(OverrunText)
PushStringCall(d) == [fn |-> "lua_pushstring", read |-> StrLen(PushString(d).s) + 1]

\* the types var_get converts to a Lua value (the cases of its switch)
GetPushes(type) ==
    type \in {"VARTYPE_STR", "VARTYPE_UINT16", "VARTYPE_UINT32", "VARTYPE_FLOAT"}

\* a get that converts whatever the VarObject holds after VAR_Get
GetFetched_ignored(rc) == TRUE

\* var_get converts the value only when VAR_Get returned EOK
GetFetched(rc) == rc = EOK

\* a find that returns the handle whatever VAR_FindByName answered
FindResult_always(name, hVar) == Returned(<<Str(name), Num(hVar)>>, 1)

\* what var_find returns for the handle VAR_FindByName answered
FindResult(name, hVar) ==
    IF hVar # VAR_INVALID
    THEN Returned(<<Str(name), Num(hVar)>>, 1)
    ELSE Returned(<<Str(name), Nil>>, 0)

var_find(name, ub) ==
    /\ Callable
    /\ LET o == [fn |-> "find", name |-> name]
           out == LibOutcome(hVarServer, ub)
           hVar == FindByName(out, name)
           c == <<[fn |-> "VAR_FindByName", hs |-> hVarServer, name |-> name, res |-> hVar]>>
       IN IF out = "crash"
          THEN Crash(o, c)
          ELSE Done(o, c, FindResult(name, hVar))
    /\ UNCHANGED <<loaded, varType, sigVars>>
    /\ UNCHANGED connVars
    /\ UNCHANGED srvVars
    /\ UNCHANGED sessVars

\* arg is the argument of var.get: a string, or a number that
\* luaL_checklstring turns into a string
var_get(arg, fo, rd, ub) ==
    /\ Callable
    /\ LET name == ToLuaString(arg)
           o == [fn |-> "get", arg |-> arg, name |-> name]
           out == LibOutcome(hVarServer, ub)
           hVar == FindByName(out, name)
           c1 == <<[fn |-> "VAR_FindByName", hs |-> hVarServer, name |-> name, res |-> hVar]>>
           type == VarTypeOf(hVar)
           d == Fetch(varVal[hVar], VarLen, fo)
           c2 == Append(c1, [fn |-> "VAR_Get", hs |-> hVarServer, hVar |-> hVar,
                             len |-> VarLen, wrote |-> d.wrote, rc |-> d.rc])
           c3 == Append(c2, PushStringCall(d))
           stack == <<arg>>
       IN IF out = "crash"
          THEN Crash(o, c1)
          ELSE IF hVar # VAR_INVALID
               THEN IF GetFetched(d.rc)
                    THEN IF GetPushes(type)
                         THEN IF type = "VARTYPE_STR"
                              THEN IF ~d.term /\ rd = "crash"
                                   THEN Crash(o, c3)
                                   ELSE Done(o, c3, Returned(Append(stack, PushString(d)), 1))
                              ELSE Done(o, c2, Returned(Append(stack, ToLuaNumber(d.val)), 1))
                         ELSE Done(o, c2, Returned(Append(stack, Nil), 0))
                    ELSE Done(o, c2, Returned(Append(stack, Nil), 0))
               ELSE Done(o, c1, Returned(Append(stack, Nil), 0))
    /\ UNCHANGED <<loaded, varType, sigVars>>
    /\ UNCHANGED connVars
    /\ UNCHANGED srvVars
    /\ UNCHANGED sessVars

\* VAR_SetStr converts the text according to the variable's declared type;
\* "bad" when the text is not a value of the type
ParseText(type, text) ==
    IF type = "VARTYPE_STR" THEN Str(text)
    ELSE IF text = "0" THEN Num(0)
    ELSE IF text = "1" THEN Num(1)
    ELSE IF text = WideText /\ type \in WideTypes THEN Wide(1, 1)
    ELSE IF text = WideText /\ type = "VARTYPE_FLOAT" THEN Wide(1, 0)
    ELSE [t |-> "bad"]

\* a resolution that knows names only
SetHandle_nameOnly(ref, out) ==
    IF ref.t = "string" THEN FindByName(out, ref.s) ELSE VAR_INVALID

\* the handle var_set resolves its first argument to
SetHandle(ref, out) ==
    IF ref.t = "string" THEN FindByName(out, ref.s)
    ELSE IF ref.t = "number" THEN ref.n
    ELSE VAR_INVALID

\* a set that goes on to VAR_SetStr whatever VAR_GetType returned
SetTypeKnown_ignored(rc) == TRUE

\* var_set calls VAR_SetStr only when VAR_GetType returned EOK
SetTypeKnown(rc) == rc = EOK

\* ref is the first argument of var.set: a name, a handle number, or neither
var_set(ref, text, ub) ==
    /\ Callable
    /\ LET o == [fn |-> "set", ref |-> ref, text |-> text]
           byName == ref.t = "string"
           out == LibOutcome(hVarServer, ub)
           hVar == SetHandle(ref, out)
           c1 == IF byName
                 THEN <<[fn |-> "VAR_FindByName", hs |-> hVarServer, name |-> ref.s,
                         res |-> hVar]>>
                 ELSE <<>>
           known == out = "ok" /\ hVar \in VarHandles
           rcType == IF known THEN EOK ELSE IF out = "ok" THEN ENOENT ELSE EINVAL
           c2 == Append(c1, [fn |-> "VAR_GetType", hs |-> hVarServer, hVar |-> hVar,
                             rc |-> IF out = "crash" THEN -1 ELSE rcType])
           type == VarTypeOf(hVar)
           val == ParseText(type, text)
           rcSet == IF known
                    THEN IF val.t # "bad" THEN EOK ELSE EINVAL
                    ELSE IF out = "ok" THEN ENOENT ELSE EINVAL
           c3 == Append(c2, [fn |-> "VAR_SetStr", hs |-> hVarServer, hVar |-> hVar,
                             type |-> type, text |-> text, rc |-> rcSet])
           stack == <<ref, Str(text)>>
       IN IF byName /\ out = "crash"
          THEN Crash(o, c1) /\ UNCHANGED varVal
          ELSE IF hVar # VAR_INVALID
               THEN IF out = "crash"
                    THEN Crash(o, c2) /\ UNCHANGED varVal
                    ELSE IF SetTypeKnown(rcType)
                         THEN IF rcSet = EOK
                              THEN /\ varVal' = [varVal EXCEPT ![hVar] = val]
                                   /\ Done(o, c3, Returned(Append(stack, Num(1)), 1))
                              ELSE /\ UNCHANGED varVal
                                   /\ Done(o, c3, Returned(Append(stack, Nil), 0))
                         ELSE /\ UNCHANGED varVal
                              /\ Done(o, c2, Returned(stack, 0))
               ELSE /\ UNCHANGED varVal
                    /\ Done(o, c1, Returned(Append(stack, Nil), 0))
    /\ UNCHANGED <<loaded, varType, sigVars, notif, pendingVal, pendingPrint, srvPrint>>
    /\ UNCHANGED connVars
    /\ UNCHANGED sessVars

\* a notify that takes the status of VAR_Notify the wrong way round
NotifyResult_inverted(stack, result) ==
    IF result # EOK
    THEN Returned(Append(stack, Num(result)), 1)
    ELSE Returned(Append(stack, Nil), 1)

\* what var_notify returns for the status of VAR_Notify
NotifyResult(stack, result) ==
    IF result = EOK
    THEN Returned(Append(stack, Num(result)), 1)
    ELSE Returned(Append(stack, Nil), 1)

var_notify(h, kind, ub) ==
    /\ Callable
    /\ LET o == [fn |-> "notify", h |-> h, kind |-> kind]
           out == LibOutcome(hVarServer, ub)
           result == IF out = "ok"
                     THEN IF h \in VarHandles THEN EOK ELSE ENOENT
                     ELSE EINVAL
           c == <<[fn |-> "VAR_Notify", hs |-> hVarServer, hVar |-> h, kind |-> kind,
                   rc |-> IF out = "crash" THEN -1 ELSE result]>>
           stack == <<Num(h), Str(kind)>>
       IN IF out = "crash"
          THEN Crash(o, c) /\ UNCHANGED notif
          ELSE /\ notif' = IF result = EOK THEN notif \cup {<<h, kind>>} ELSE notif
               /\ Done(o, c, NotifyResult(stack, result))
    /\ UNCHANGED <<loaded, varType, sigVars, varVal, pendingVal, pendingPrint, srvPrint>>
    /\ UNCHANGED connVars
    /\ UNCHANGED sessVars

(***************************************************************************)
(* Validation exchange: validate_start, validate_end.                      *)
(***************************************************************************)
\* the server has a validation request pending under id
ValPending(id) == id \in ServerTxnIds /\ pendingVal[id].pending

\* the types var_validate_start converts to a Lua value
StartPushes(type) ==
    type \in {"VARTYPE_STR", "VARTYPE_INT16", "VARTYPE_UINT16", "VARTYPE_INT32",
              "VARTYPE_UINT32", "VARTYPE_INT64", "VARTYPE_UINT64", "VARTYPE_FLOAT"}

\* the id var_validate_start asks the server for
StartRequestId(id) == id

\* what var_validate_start returns when the request was fetched: d is what
\* the library delivered for it
StartFound(id, req, d) ==
    LET type == VarTypeOf(req.hVar)
    IN IF StartPushes(type)
       THEN IF type = "VARTYPE_STR"
            THEN Returned(<<Num(id), Num(req.hVar), PushString(d)>>, 2)
            ELSE Returned(<<Num(id), Num(req.hVar), ToLuaNumber(d.val)>>, 2)
       ELSE Returned(<<Num(id), Num(req.hVar)>>, 0)

\* a miss that returns one value: the argument left on the stack
StartNotFound_oneResult(id) == Returned(<<Num(id)>>, 1)

\* what var_validate_start returns when the request was not fetched
StartNotFound(id) == Returned(<<Num(id)>>, 0)

var_validate_start(id, fo, rd, ub) ==
    /\ Callable
    /\ LET o == [fn |-> "validate_start", id |-> id]
           rid == StartRequestId(id)
           out == LibOutcome(hVarServer, ub)
           found == out = "ok" /\ ValPending(rid)
           req == pendingVal[rid]
           d == Fetch(req.val, VarLen, fo)
           rc == IF found THEN d.rc ELSE IF out = "ok" THEN ENOENT ELSE EINVAL
           c1 == <<[fn |-> "VAR_GetValidationRequest", hs |-> hVarServer, id |-> rid,
                    len |-> VarLen, wrote |-> IF found THEN d.wrote ELSE 0,
                    rc |-> IF out = "crash" THEN -1 ELSE rc]>>
           c2 == Append(c1, PushStringCall(d))
       IN IF out = "crash"
          THEN Crash(o, c1)
          ELSE IF rc = EOK
               THEN IF VarTypeOf(req.hVar) = "VARTYPE_STR"
                    THEN IF ~d.term /\ rd = "crash"
                         THEN Crash(o, c2)
                         ELSE Done(o, c2, StartFound(id, req, d))
                    ELSE Done(o, c1, StartFound(id, req, d))
               ELSE Done(o, c1, StartNotFound(id))
    /\ UNCHANGED <<loaded, varType, sigVars>>
    /\ UNCHANGED connVars
    /\ UNCHANGED srvVars
    /\ UNCHANGED sessVars

\* the id var_validate_end reports the verdict for
EndResponseId(id) == id

\* a result that ignores the status of the response call
EndResult_always(id, resp, rc) == Returned(<<Num(id), Num(resp), Num(1)>>, 1)

\* what var_validate_end returns for the status of the response call
EndResult(id, resp, rc) ==
    IF rc = EOK
    THEN Returned(<<Num(id), Num(resp), Num(1)>>, 1)
    ELSE Returned(<<Num(id), Num(resp), Nil>>, 1)

var_validate_end(id, resp, ub) ==
    /\ Callable
    /\ LET o == [fn |-> "validate_end", id |-> id, resp |-> resp]
           rid == EndResponseId(id)
           out == LibOutcome(hVarServer, ub)
           rc == IF out = "ok"
                 THEN IF ValPending(rid) THEN EOK ELSE ENOENT
                 ELSE EINVAL
           c == <<[fn |-> "VAR_SendValidationResponse", hs |-> hVarServer,
                   id |-> rid, resp |-> resp, rc |-> IF out = "crash" THEN -1 ELSE rc]>>
       IN IF out = "crash"
          THEN Crash(o, c) /\ UNCHANGED pendingVal
          ELSE /\ Done(o, c, EndResult(id, resp, rc))
               /\ pendingVal' = IF rc = EOK
                                THEN [pendingVal EXCEPT ![rid] = NoReq]
                                ELSE pendingVal
    /\ UNCHANGED <<loaded, varType, sigVars, varVal, notif, pendingPrint, srvPrint>>
    /\ UNCHANGED connVars
    /\ UNCHANGED sessVars

(***************************************************************************)
(* Print session: open, close, and the host runtime's uses of closef.      *)
(***************************************************************************)
\* the descriptor the server passes for the session held in object s
FdOf(s) == s + 2
\* the FILE pointer fdopen returns for object s
StreamOf(s) == s
\* the userdata lua_newuserdata allocates next
FreeObjs == {s \in SessObjs : sess[s].st = "unalloc"}
NewObj == CHOOSE s \in FreeObjs : \A u \in FreeObjs : s <= u

StrError(rc) ==
    CASE rc = ENOENT -> "No such file or directory"
      [] rc = EIO -> "Input/output error"
      [] rc = EINVAL -> "Invalid argument"
      [] OTHER -> "Success"

var_open_print_session(id, srvOk, fpOk, ub) ==
    /\ Callable
    /\ LET o == [fn |-> "open_print_session", id |-> id]
           out == LibOutcome(hVarServer, ub)
           eok == /\ out = "ok"
                  /\ id \in ServerTxnIds
                  /\ pendingPrint[id] # VAR_INVALID
                  /\ srvOk
           rc == IF eok THEN EOK ELSE IF out = "ok" THEN ENOENT ELSE EINVAL
           c1 == <<[fn |-> "VAR_OpenPrintSession", hs |-> hVarServer, id |-> id,
                    rc |-> IF out = "crash" THEN -1 ELSE rc]>>
       IN IF out = "crash"
          THEN Crash(o, c1) /\ UNCHANGED <<pendingPrint, srvPrint>> /\ UNCHANGED sessVars
          ELSE IF eok
               THEN /\ FreeObjs # {}
                    /\ LET s == NewObj
                           hVar == pendingPrint[id]
                           fd == FdOf(s)
                           fp == IF fpOk THEN StreamOf(s) ELSE NULL
                       IN /\ sess' = [sess EXCEPT ![s] =
                                 [st |-> "live", closef |-> TRUE, f |-> fp, fd |-> fd,
                                  id |-> id, hVar |-> hVar]]
                          /\ hist' = [hist EXCEPT ![s] =
                                 [opened |-> TRUE, nSrvClose |-> 0, nRelease |-> 0]]
                          /\ streams' = IF fpOk THEN streams \cup {fp} ELSE streams
                          /\ fds' = fds \cup {fd}
                          /\ pendingPrint' = [pendingPrint EXCEPT ![id] = VAR_INVALID]
                          /\ srvPrint' = srvPrint \cup {id}
                          /\ Done(o, Append(c1, [fn |-> "fdopen", fd |-> fd, f |-> fp]),
                                  Returned(<<Num(id), UData(s), Num(hVar)>>, 2))
               ELSE /\ Done(o, c1, Returned(<<Num(id), Nil>>, 1))
                    /\ UNCHANGED <<pendingPrint, srvPrint>>
                    /\ UNCHANGED sessVars
    /\ UNCHANGED <<loaded, varType, sigVars, varVal, notif, pendingVal>>
    /\ UNCHANGED connVars

\* the library calls of var_close_print_session, in program order
CloseCalls(srvCall, fcloseCall) == <<srvCall, fcloseCall>>

\* a close that releases the stream only when the server accepted the close
CloseReleases_onSuccess(rc) == rc = EOK

\* var_close_print_session calls fclose whatever VAR_ClosePrintSession returned
CloseReleases(rc) == TRUE

\* what var_close_print_session returns for the status of the server close
CloseResult(s, rc) ==
    IF rc = EOK
    THEN Returned(<<UData(s), Num(1)>>, 1)
    ELSE Returned(<<UData(s), Nil, Str(StrError(rc))>>, 2)

\* the body of var_close_print_session on userdata s; the object is in state
\* `after` when it is over.  rcOk: the server accepts the close of an open
\* channel; ub, ubf: what a dangling connection handle and fclose(NULL) do.
CloseBody(o, s, after, rcOk, ub, ubf) ==
    LET p == sess[s]
        out == LibOutcome(hVarServer, ub)
        \* the status VAR_ClosePrintSession returns (-1: it did not return)
        rc == IF out = "ok"
              THEN IF p.id \in srvPrint
                   THEN IF rcOk THEN EOK ELSE EIO
                   ELSE ENOENT
              ELSE IF out = "crash" THEN -1 ELSE EINVAL
        srvCall == [fn |-> "VAR_ClosePrintSession", hs |-> hVarServer,
                    id |-> p.id, fd |-> p.fd, rc |-> rc]
        fcloseCall == [fn |-> "fclose", f |-> p.f]
        \* the object still holds what it was opened with
        own == hist[s].opened /\ p.fd # 0
        histSrv == [hist EXCEPT ![s].nSrvClose = @ + (IF own THEN 1 ELSE 0)]
        cleared == [sess EXCEPT ![s] = [NoSess EXCEPT !.st = after]]
    IN IF out = "crash"
       THEN /\ Crash(o, <<srvCall>>)
            /\ hist' = histSrv
            /\ UNCHANGED <<sess, streams, fds, srvPrint>>
       ELSE /\ srvPrint' = IF rc = EOK THEN srvPrint \ {p.id} ELSE srvPrint
            /\ IF CloseReleases(rc)
               THEN IF p.f = NULL
                    THEN /\ hist' = histSrv
                         /\ UNCHANGED <<streams, fds>>
                         /\ IF ubf = "crash"
                            THEN /\ Crash(o, CloseCalls(srvCall, fcloseCall))
                                 /\ UNCHANGED sess
                            ELSE /\ Done(o, CloseCalls(srvCall, fcloseCall),
                                         CloseResult(s, rc))
                                 /\ sess' = cleared
                    ELSE /\ hist' = [histSrv EXCEPT ![s].nRelease = @ + 1]
                         /\ streams' = streams \ {p.f}
                         /\ fds' = fds \ {p.fd}
                         /\ Done(o, CloseCalls(srvCall, fcloseCall), CloseResult(s, rc))
                         /\ sess' = cleared
               ELSE /\ hist' = histSrv
                    /\ UNCHANGED <<streams, fds>>
                    /\ Done(o, <<srvCall>>, CloseResult(s, rc))
                    /\ sess' = cleared

\* var.close_print_session(session) called by the script
var_close_print_session(s, rcOk, ub, ubf) ==
    /\ Callable
    /\ sess[s].st = "live"
    /\ CloseBody([fn |-> "close_print_session", s |-> s], s, "live", rcOk, ub, ubf)
    /\ UNCHANGED <<loaded, varType, sigVars, varVal, notif, pendingVal, pendingPrint>>
    /\ UNCHANGED connVars

\* session:close() of the host runtime: a stream whose closef is NULL is a
\* closed file and the call raises an error; otherwise closef is cleared and
\* the callback stored in it runs
stream_close(s, rcOk, ub, ubf) ==
    /\ Callable
    /\ sess[s].st = "live"
    /\ LET o == [fn |-> "stream_close", s |-> s]
       IN IF sess[s].closef
          THEN CloseBody(o, s, "live", rcOk, ub, ubf)
          ELSE /\ Done(o, <<>>, <<[t |-> "error"]>>)
               /\ UNCHANGED <<srvPrint>>
               /\ UNCHANGED sessVars
    /\ UNCHANGED <<loaded, varType, sigVars, varVal, notif, pendingVal, pendingPrint>>
    /\ UNCHANGED connVars

\* garbage collection of the session userdata: the host runtime runs the
\* callback only for a stream that is not closed and whose FILE pointer is set
stream_gc(s, rcOk, ub, ubf) ==
    /\ Callable
    /\ sess[s].st = "live"
    /\ LET o == [fn |-> "stream_gc", s |-> s]
       IN IF sess[s].closef /\ sess[s].f # NULL
          THEN CloseBody(o, s, "collected", rcOk, ub, ubf)
          ELSE /\ Done(o, <<>>, <<>>)
               /\ sess' = [sess EXCEPT ![s] = [NoSess EXCEPT !.st = "collected"]]
               /\ UNCHANGED <<srvPrint, hist, streams, fds>>
    /\ UNCHANGED <<loaded, varType, sigVars, varVal, notif, pendingVal, pendingPrint>>
    /\ UNCHANGED connVars

(***************************************************************************)
(* Events: wait.                                                           *)
(***************************************************************************)
\* the call of sigprocmask in var_wait
BlockCall == [fn |-> "sigprocmask", how |-> "SIG_BLOCK", mask |-> WatchedSignals]

\* var.wait() up to the point where the thread sleeps in sigwaitinfo: the
\* mask is built and blocked
var_wait_block ==
    /\ Callable
    /\ sigBlocked' = TRUE
    /\ waiting' = TRUE
    /\ Done([fn |-> "wait", at |-> "sigwaitinfo"], <<BlockCall>>, <<>>)
    /\ UNCHANGED <<loaded, varType, sigPending>>
    /\ UNCHANGED connVars
    /\ UNCHANGED srvVars
    /\ UNCHANGED sessVars

\* a wait that unblocks the watched signals before it returns
MaskAfterWait_restored(blocked) == FALSE

\* the thread's mask when var_wait returns: nothing follows sigwaitinfo that
\* changes it
MaskAfterWait(blocked) == blocked

\* what var_wait pushes after sigwaitinfo returned sig and left info as it is
WaitResult(sig, info) == Returned(<<sig, Num(info)>>, 2)

\* sigwaitinfo returns and var.wait() with it.  Either it accepted the
\* pending signal e of its mask, or (intr) it was interrupted: it returns -1
\* and does not write info, whose sival_int then holds the garbage g.
var_wait_return(e, intr, g) ==
    /\ loaded /\ ~crashed /\ waiting
    /\ waiting' = FALSE
    /\ IF intr
       THEN /\ sigPending' = sigPending
            /\ Done([fn |-> "wait", at |-> "return"],
                    <<BlockCall, [fn |-> "sigwaitinfo", got |-> NoSignal, rc |-> -1]>>,
                    WaitResult(Num(-1), g))
       ELSE /\ e \in sigPending
            /\ e.sig \in WatchedSignals
            /\ sigPending' = sigPending \ {e}
            /\ Done([fn |-> "wait", at |-> "return"],
                    <<BlockCall, [fn |-> "sigwaitinfo", got |-> e, rc |-> 0]>>,
                    WaitResult(SigNum(e.sig), e.val))
    /\ sigBlocked' = MaskAfterWait(sigBlocked)
    /\ UNCHANGED <<loaded, varType>>
    /\ UNCHANGED connVars
    /\ UNCHANGED srvVars
    /\ UNCHANGED sessVars

\* a signal is sent to the thread: it stays pending while blocked, and
\* terminates the process (the default action) when it is not
SendSignal(e) ==
    /\ loaded /\ ~crashed
    /\ e \notin sigPending
    /\ Cardinality(sigPending) < MaxPending
    /\ IF sigBlocked
       THEN /\ sigPending' = sigPending \cup {e}
            /\ op' = [fn |-> "signal"] /\ calls' = <<>> /\ ret' = <<>> /\ crashed' = FALSE
       ELSE /\ sigPending' = sigPending
            /\ Crash([fn |-> "signal"], <<>>)
    /\ UNCHANGED <<loaded, varType, sigBlocked, waiting>>
    /\ UNCHANGED connVars
    /\ UNCHANGED srvVars
    /\ UNCHANGED sessVars

(***************************************************************************)
(* The variable server raising requests for this client.                   *)
(***************************************************************************)
Outstanding(id) ==
    pendingVal[id].pending \/ pendingPrint[id] # VAR_INVALID \/ id \in srvPrint

\* candidate values of a validation request, by the variable's type
CandVals(h) ==
    IF VarTypeOf(h) = "VARTYPE_STR"
    THEN {Str(v) : v \in StrVals \cup {LongText}}
    ELSE IF VarTypeOf(h) \in WideTypes
         THEN {Num(v) : v \in NumVals} \cup {Wide(1, 1)}
         ELSE {Num(v) : v \in NumVals}

ServerStep == op' = [fn |-> "server"] /\ calls' = <<>> /\ ret' = <<>> /\ crashed' = FALSE

SrvRaiseValidate(id, h, val) ==
    /\ Callable
    /\ conn = "open"
    /\ ~Outstanding(id)
    /\ pendingVal' = [pendingVal EXCEPT ![id] = [pending |-> TRUE, hVar |-> h, val |-> val]]
    /\ ServerStep
    /\ UNCHANGED <<loaded, varType, sigVars, varVal, notif, pendingPrint, srvPrint>>
    /\ UNCHANGED connVars
    /\ UNCHANGED sessVars

SrvRaisePrint(id, h) ==
    /\ Callable
    /\ conn = "open"
    /\ ~Outstanding(id)
    /\ pendingPrint' = [pendingPrint EXCEPT ![id] = h]
    /\ ServerStep
    /\ UNCHANGED <<loaded, varType, sigVars, varVal, notif, pendingVal, srvPrint>>
    /\ UNCHANGED connVars
    /\ UNCHANGED sessVars

(***************************************************************************)
(* Specification.                                                          *)
(***************************************************************************)
LuaRefs == {Str(n) : n \in LuaNames} \cup {Num(h) : h \in LuaHandles} \cup {Nil}
\* what a script may pass to get: a name, or a handle that find returned
LuaArgs == {Str(n) : n \in LuaNames} \cup {Num(h) : h \in VarHandles}

\* the outcomes to explore for a library call on hVarServer: the choice only
\* exists when the handle dangles
ConnUB == IF HandleState(hVarServer) = "closed" THEN UBOutcomes ELSE {"fail"}
\* the outcomes to explore for fclose on the stream of object s
StreamUB(s) == IF sess[s].f = NULL THEN UBOutcomes ELSE {"fail"}

\* the outcomes to explore for a server-side result: the choice only exists
\* when the request reaches the server and the server knows the id
OpenOutcomes(id) ==
    IF id \in ServerTxnIds /\ pendingPrint[id] # VAR_INVALID /\ HandleState(hVarServer) = "open"
    THEN BOOLEAN ELSE {TRUE}
CloseOutcomes(s) ==
    IF sess[s].id \in srvPrint /\ HandleState(hVarServer) = "open" THEN BOOLEAN ELSE {TRUE}

\* the outcomes to explore for the fetch of value v: the choice between the
\* ways of delivering a long string only exists for a string that does not
\* fit, and the read past the buffer only for a buffer without terminator
IsLong(v) == v.t = "string" /\ StrLen(v.s) + 1 > VarLen
FetchChoices(v) == IF IsLong(v) THEN FetchOutcomes ELSE {"fail", "truncate"}
ReadChoices(fo) == IF fo = "fill" THEN ReadOutcomes ELSE {"overrun"}
GetChoices(arg) ==
    LET hVar == NameToHandle(ToLuaString(arg))
    IN IF hVar # VAR_INVALID /\ HandleState(hVarServer) = "open"
       THEN FetchChoices(varVal[hVar])
       ELSE {"truncate"}
StartChoices(id) ==
    IF ValPending(id) /\ HandleState(hVarServer) = "open"
    THEN FetchChoices(pendingVal[id].val) \ {"fail"}
    ELSE {"truncate"}

\* registration of the library in a Lua state
RegisterNext == \E ok \in BOOLEAN : luaopen_libluavars(ok)

\* registration and teardown of the library
HandleNext ==
    \/ RegisterNext
    \/ \E ub \in ConnUB : global_unload(ub)

\* lookup by a script passing the given names
FindNext(names) == \E name \in names, ub \in ConnUB : var_find(name, ub)

\* registration for notifications of the given handles and kinds
NotifyNext(handles, kinds) ==
    \E h \in handles, kind \in kinds, ub \in ConnUB : var_notify(h, kind, ub)

\* variable access by a script passing the given names, references and texts
AccessNext(names, args, refs, texts) ==
    \/ FindNext(names)
    \/ \E arg \in args, ub \in ConnUB : \E fo \in GetChoices(arg) : \E rd \in ReadChoices(fo) :
           var_get(arg, fo, rd, ub)
    \/ \E ref \in refs, text \in texts, ub \in ConnUB : var_set(ref, text, ub)

\* the validation exchange over the given script ids and server ids
ValidateNext(ids, srvIds) ==
    \/ \E id \in ids, ub \in ConnUB : \E fo \in StartChoices(id) : \E rd \in ReadChoices(fo) :
           var_validate_start(id, fo, rd, ub)
    \/ \E id \in ids, resp \in Verdicts, ub \in ConnUB : var_validate_end(id, resp, ub)
    \/ \E id \in srvIds, h \in VarHandles : \E val \in CandVals(h) :
           SrvRaiseValidate(id, h, val)

\* print sessions over the given script ids and server ids
PrintNext(ids, srvIds, hs) ==
    \/ \E id \in ids, ub \in ConnUB : \E srvOk \in OpenOutcomes(id), fpOk \in OpenOutcomes(id) :
           var_open_print_session(id, srvOk, fpOk, ub)
    \/ \E s \in SessObjs, ub \in ConnUB : \E rcOk \in CloseOutcomes(s), ubf \in StreamUB(s) :
           var_close_print_session(s, rcOk, ub, ubf)
    \/ \E s \in SessObjs, ub \in ConnUB : \E rcOk \in CloseOutcomes(s), ubf \in StreamUB(s) :
           stream_close(s, rcOk, ub, ubf)
    \/ \E s \in SessObjs, ub \in ConnUB : \E rcOk \in CloseOutcomes(s), ubf \in StreamUB(s) :
           stream_gc(s, rcOk, ub, ubf)
    \/ \E id \in srvIds, h \in hs : SrvRaisePrint(id, h)

\* every function of the library that uses the connection, for a script that
\* uses one variable and one transaction id
Next ==
    \/ HandleNext
    \/ AccessNext({"a", "zz"}, {Str("a"), Str("zz")}, {Str("a"), Num(1)}, {"1"})
    \/ NotifyNext({1}, {"NOTIFY_VALIDATE"})
    \/ ValidateNext({1}, {1})
    \/ PrintNext({1}, {1}, {1})

Spec == Init /\ [][Next]_vars

\* The component specifications below follow one component over every input
\* of the model, from registration on and for as long as the library is not
\* torn down; teardown and what follows it are part of Spec.

\* the print session lifecycle, every id
PrintSpecNext == RegisterNext \/ PrintNext(LuaTxnIds, ServerTxnIds, VarHandles)

SpecPrint == Init /\ [][PrintSpecNext]_vars

\* the validation exchange, every id
ValidateSpecNext == RegisterNext \/ ValidateNext(LuaTxnIds, ServerTxnIds)

SpecValidate == InitKinds /\ [][ValidateSpecNext]_vars

\* lookup, get and set, every name, handle and kind of variable
AccessSpecNext == RegisterNext \/ AccessNext(LuaNames, LuaArgs, LuaRefs, LuaTexts)

SpecAccess == InitKinds /\ [][AccessSpecNext]_vars

\* waiting for events
WaitNext ==
    \/ var_wait_block
    \/ \E e \in Signals, intr \in BOOLEAN, g \in GarbageInts : var_wait_return(e, intr, g)
    \/ \E e \in Signals : SendSignal(e)

WaitSpecNext == RegisterNext \/ WaitNext

SpecWait == Init /\ [][WaitSpecNext]_vars

\* lookup and registration for notifications, every handle and kind
NotifySpecNext == RegisterNext \/ FindNext(LuaNames) \/ NotifyNext(LuaHandles, NotifyKinds)

SpecNotify == Init /\ [][NotifySpecNext]_vars

(***************************************************************************)
(* Properties.                                                             *)
(***************************************************************************)
CloseOps == {"close_print_session", "stream_close", "stream_gc"}

\* the caller sees no value, or nil first
AbsentResult == ret = <<>> \/ ret[1].t = "nil"

\* object s went through var_close_print_session: the memset zeroed it
Invalidated(s) ==
    /\ sess[s].st = "live"
    /\ hist[s].opened
    /\ ~sess[s].closef
    /\ sess[s].fd = 0

\* C1: in every close of a print session the local stream is released
\* (fclose) before the server is told the channel is finished
\* (VAR_ClosePrintSession).
C1_ReleaseBeforeServerClose ==
    op.fn \in CloseOps =>
        \A i \in DOMAIN calls : \A j \in DOMAIN calls :
            (calls[i].fn = "VAR_ClosePrintSession" /\ calls[j].fn = "fclose") => j < i

\* C2: close_print_session on a session object that was already closed and
\* zeroed is rejected: it issues no library call (no server close on id 0 and
\* descriptor 0, no fclose of a null stream) and returns a failure result.
C2_SecondCloseRejected ==
    [][\A s \in SessObjs :
          (Invalidated(s) /\ op' = [fn |-> "close_print_session", s |-> s])
              => (calls' = <<>> /\ ~crashed' /\ AbsentResult')]_vars

\* C3: for every session object handed out by open_print_session, whatever
\* explicit closes, stream closes and garbage collection follow, the server
\* close for its transaction and the release of its stream happen at most
\* once, in the same close step, and have happened once the object is
\* collected.
C3_ReleasedTogetherExactlyOnce ==
    \A s \in SessObjs :
        hist[s].opened =>
            /\ hist[s].nSrvClose <= 1
            /\ hist[s].nRelease <= 1
            /\ hist[s].nSrvClose = hist[s].nRelease
            /\ sess[s].st = "collected" => (hist[s].nSrvClose = 1 /\ hist[s].nRelease = 1)

\* C4: closing a session whose stream is open releases the stream and its
\* descriptor and clears the session object whatever VAR_ClosePrintSession
\* returns, and reports failure (nil and the error text) when it fails.
C4_CloseRunsOn(s) ==
    \/ op' = [fn |-> "close_print_session", s |-> s]
    \/ sess[s].closef /\ op' = [fn |-> "stream_close", s |-> s]
    \/ sess[s].closef /\ op' = [fn |-> "stream_gc", s |-> s]

C4_CloseAlwaysReleases ==
    [][\A s \in SessObjs :
          (sess[s].st = "live" /\ sess[s].f # NULL /\ C4_CloseRunsOn(s))
              => /\ ~crashed'
                 /\ sess[s].f \notin streams'
                 /\ sess[s].fd \notin fds'
                 /\ sess'[s].f = NULL /\ sess'[s].fd = 0 /\ sess'[s].id = 0
                 /\ ~sess'[s].closef
                 /\ calls'[1].fn = "VAR_ClosePrintSession"
                 /\ calls'[1].rc # EOK => (Len(ret') = 2 /\ ret'[1] = Nil)
                 /\ calls'[1].rc = EOK => ret' = <<Num(1)>>]_vars

\* C4 witness: a close in which the server close failed and the stream was
\* released all the same
C4_Witness ==
    /\ op.fn = "close_print_session"
    /\ Len(calls) = 2
    /\ calls[1].fn = "VAR_ClosePrintSession" /\ calls[1].rc = EIO
    /\ calls[2].fn = "fclose" /\ calls[2].f # NULL
    /\ calls[2].f \notin streams
    /\ ret[1] = Nil

\* the operations of vars_lib that use the connection
DependentOps == {"get", "set", "find", "notify", "validate_start", "validate_end",
                 "open_print_session", "close_print_session"}

ServerCalls == {"VAR_FindByName", "VAR_Get", "VAR_GetType", "VAR_SetStr", "VAR_Notify",
                "VAR_GetValidationRequest", "VAR_SendValidationResponse",
                "VAR_OpenPrintSession", "VAR_ClosePrintSession"}

\* the last operation issued no call of the variable server library
NoServerCall == \A i \in DOMAIN calls : calls[i].fn \notin ServerCalls

\* C5: once __unload has closed the connection, every later operation fails
\* cleanly: it returns an absent result and issues no server call on the
\* closed handle.
C5_FailCleanlyAfterTeardown ==
    (conn = "closed" /\ op.fn \in DependentOps)
        => (~crashed /\ NoServerCall /\ AbsentResult)

\* C6: while the handle is null because the connection could not be opened,
\* every dependent operation fails without passing the null handle to a
\* server call.
C6_NullHandleNotPassed ==
    (hVarServer = NULL /\ op.fn \in DependentOps)
        => (~crashed /\ NoServerCall /\ AbsentResult)

\* C7: the connection is never closed more often than it was opened.
C7_CloseAtMostOncePerOpen == nClose <= nOpen

\* C8: a registration made while the handle is set does not call
\* VARSERVER_Open and leaves the handle as it is, and the connection is opened
\* at most once however many registrations there are.
C8_OpenIdempotent ==
    /\ [](nOpen <= 1)
    /\ [][(hVarServer # NULL /\ op'.fn = "luaopen_libluavars")
             => (calls' = <<>> /\ hVarServer' = hVarServer /\ nOpen' = nOpen)]_vars

\* C8 witness: a registration that found the handle set and opened nothing
C8_Witness ==
    /\ op.fn = "luaopen_libluavars"
    /\ calls = <<>>
    /\ hVarServer # NULL
    /\ nOpen = 1

\* C9: validate_start for an id with no pending validation request returns
\* nothing (no handle, no value) after its one library call.
C9_StartOfStaleIdNotFound ==
    (op.fn = "validate_start" /\ ~ValPending(op.id))
        => (~crashed /\ ret = <<>> /\ Len(calls) = 1)

\* C9 witness: validate_start on an id the server issues but does not hold
\* pending, while another request is pending
C9_Witness ==
    /\ op.fn = "validate_start"
    /\ op.id \in ServerTxnIds
    /\ ~ValPending(op.id)
    /\ \E j \in ServerTxnIds : ValPending(j)
    /\ ret = <<>>

\* C10: validate_end on a pending id returns 1 and retires the request; on an
\* id that is not pending (never raised, or already retired) it returns nil;
\* either way every other pending request is left as it was.
C10_EndByIdOnly ==
    [][op'.fn = "validate_end"
          => /\ ~crashed'
             /\ IF ValPending(op'.id)
                THEN ret' = <<Num(1)>> /\ ~pendingVal'[op'.id].pending
                ELSE ret' = <<Nil>>
             /\ \A j \in ServerTxnIds : j # op'.id => pendingVal'[j] = pendingVal[j]]_vars

\* C10 witness: a validate_end that failed while another request stays pending
C10_Witness ==
    /\ op.fn = "validate_end"
    /\ ret = <<Nil>>
    /\ \E j \in ServerTxnIds : j # op.id /\ ValPending(j)

\* the library call fn of the last operation, if it issued one
CallsOf(fn) == {i \in DOMAIN calls : calls[i].fn = fn}

\* C11: validate_start on an id that is pending returns exactly the handle and
\* the candidate value the server holds for the id, whatever the kind of the
\* variable (a string is one that fits the buffer; longer ones are C19's).
C11_StartReturnsCandidate ==
    (op.fn = "validate_start" /\ ValPending(op.id) /\ ~IsLong(pendingVal[op.id].val))
        => (~crashed /\ ret = <<Num(pendingVal[op.id].hVar), pendingVal[op.id].val>>)

\* C12: a successful set of a variable by name followed by get of the same
\* name, the fetch succeeding, returns the value the text parses to under the
\* variable's type, for every kind (a string is one that fits the buffer).
C12_SetGetRoundTrip ==
    [][(/\ op.fn = "set" /\ op.ref.t = "string" /\ ret = <<Num(1)>>
        /\ ~IsLong(Str(op.text))
        /\ op'.fn = "get" /\ op'.arg = op.ref
        /\ \A i \in DOMAIN calls' : calls'[i].fn = "VAR_Get" => calls'[i].rc = EOK)
          => (/\ ~crashed'
              /\ ret' = <<ParseText(VarTypeOf(NameToHandle(op.ref.s)), op.text)>>)]_vars

\* C13: get of the handle that find returns for a name yields what get of
\* the name yields: a get by handle that follows a get by name which
\* returned a value returns the same value, no fetch failing.
C13_GetByHandleAsByName ==
    [][(/\ op.fn = "get" /\ op.arg.t = "string" /\ Len(ret) = 1
        /\ op'.fn = "get" /\ op'.arg = Num(NameToHandle(op.arg.s))
        /\ \A i \in DOMAIN calls' : calls'[i].fn = "VAR_Get" => calls'[i].rc = EOK)
          => ret' = ret]_vars

\* C14: a set whose reference does not resolve to a variable (unknown name,
\* invalid handle, neither name nor number), or whose type query fails (no
\* connection), issues no VAR_SetStr call, returns the absent value and leaves
\* every variable of the server as it was.
C14_SetFailsWithoutSetCall ==
    [][(/\ op'.fn = "set"
        /\ \/ SetHandle(op'.ref, "ok") \notin VarHandles
           \/ HandleState(hVarServer) # "open")
          => (/\ ~crashed'
              /\ \A i \in DOMAIN calls' : calls'[i].fn # "VAR_SetStr"
              /\ AbsentResult'
              /\ varVal' = varVal)]_vars

\* C14 witness: a set by a handle number the server does not know, stopped by
\* the failed type query
C14_Witness ==
    /\ op.fn = "set"
    /\ op.ref.t = "number"
    /\ op.ref.n # VAR_INVALID
    /\ Len(calls) = 1
    /\ calls[1].fn = "VAR_GetType" /\ calls[1].rc = ENOENT
    /\ ret = <<>>

\* C15: get of a name the server does not know returns nothing after the
\* lookup alone (no VAR_Get call), and get returns nothing when VAR_Get fails
\* for a name the server knows.
C15_GetNotFound ==
    op.fn = "get" =>
        /\ op.name \notin VarNames =>
               (~crashed /\ Len(calls) = 1 /\ calls[1].fn = "VAR_FindByName" /\ ret = <<>>)
        /\ \A i \in CallsOf("VAR_Get") : calls[i].rc # EOK => (~crashed /\ ret = <<>>)

\* C15 witness: a get of a known name whose fetch failed
C15_Witness ==
    /\ op.fn = "get"
    /\ op.name \in VarNames
    /\ Len(calls) = 2
    /\ calls[2].fn = "VAR_Get" /\ calls[2].rc = EIO
    /\ ret = <<>>

C16_WaitReturnsDeliveredSignal ==
    (op.fn = "wait" /\ op.at = "return") =>
        /\ ~crashed
        /\ NoServerCall
        /\ \E e \in Signals :
              /\ e.sig \in WatchedSignals
              /\ calls[2].got = e
              /\ ret = <<SigNum(e.sig), Num(e.val)>>

\* C17: open_print_session returns a session only when the server opened the
\* channel and fdopen created the stream on the descriptor; when the server
\* call fails or fdopen fails it returns nil alone and leaves no print session
\* of the id open on the server.
C17_SessionOnlyWithStream ==
    op.fn = "open_print_session" =>
        /\ ~crashed
        /\ calls[1].rc # EOK => (Len(calls) = 1 /\ ret = <<Nil>>)
        /\ \A i \in CallsOf("fdopen") :
              IF calls[i].f = NULL
              THEN ret = <<Nil>> /\ op.id \notin srvPrint
              ELSE /\ Len(ret) = 2
                   /\ ret[1].t = "userdata"
                   /\ sess[ret[1].u].f = calls[i].f
                   /\ calls[i].f \in streams

\* a call of the variable server library that failed, or a lookup that missed
CallFailed(c) ==
    IF c.fn = "VAR_FindByName" THEN c.res = VAR_INVALID
    ELSE IF c.fn \in ServerCalls THEN c.rc # EOK
    ELSE FALSE

\* the last operation failed: one of its server calls did, or a set had no
\* handle to give to the server
OpFailed ==
    \/ \E i \in DOMAIN calls : CallFailed(calls[i])
    \/ op.fn = "set" /\ \A i \in DOMAIN calls : calls[i].fn # "VAR_GetType"

\* C18: an operation of the library that returns gives the caller the absent
\* value (nothing, or nil first) if and only if it failed, that is one of its
\* server calls failed or its lookup missed; it raises no error.
C18_AbsentIffFailed ==
    (op.fn \in DependentOps /\ ~crashed) =>
        /\ AbsentResult <=> OpFailed
        /\ \A j \in DOMAIN ret : ret[j].t # "error"

\* C19: in get and validate_start no more than BUFSIZ bytes are written to
\* the buffer or read from it, and a string returned holds fewer than BUFSIZ
\* characters; a longer string of the server is cut or the call fails.
C19_StringWithinBuffer ==
    op.fn \in {"get", "validate_start"} =>
        /\ ~crashed
        /\ \A i \in DOMAIN calls :
              /\ calls[i].fn \in {"VAR_Get", "VAR_GetValidationRequest"}
                     => calls[i].wrote <= BUFSIZ
              /\ calls[i].fn = "lua_pushstring" => calls[i].read <= BUFSIZ
        /\ \A j \in DOMAIN ret : ret[j].t = "string" => StrLen(ret[j].s) < BUFSIZ

\* C21: find changes no variable value, no registration, no pending
\* transaction and not the connection handle; with the connection open it
\* returns the handle of a name the server knows and nothing for any other.
C21_FindIsPureLookup ==
    [][op'.fn = "find"
          => /\ ~crashed'
             /\ varVal' = varVal /\ varType' = varType /\ notif' = notif
             /\ pendingVal' = pendingVal /\ pendingPrint' = pendingPrint
             /\ srvPrint' = srvPrint
             /\ hVarServer' = hVarServer /\ conn' = conn
             /\ \A i \in DOMAIN calls' : calls'[i].fn = "VAR_FindByName"
             /\ conn = "open" =>
                    ret' = IF op'.name \in VarNames
                           THEN <<Num(NameToHandle(op'.name))>>
                           ELSE <<>>]_vars

\* C21 witness: find returned the handle of a variable after a set had
\* changed the value of that variable
C21_Witness ==
    /\ op.fn = "find"
    /\ op.name \in VarNames
    /\ ret = <<Num(NameToHandle(op.name))>>
    /\ varVal[NameToHandle(op.name)] \notin {Num(0), Str("x")}

\* C22: with the connection open, a set by the handle of a variable that
\* follows a set of the same text by the name of the variable issues the
\* same VAR_GetType and VAR_SetStr calls (the calls of the set by name after
\* its lookup), returns the same result and leaves the value the first set
\* stored.
C22_SetByNameAsByHandle ==
    [][(/\ op.fn = "set" /\ op.ref.t = "string"
        /\ NameToHandle(op.ref.s) # VAR_INVALID
        /\ conn = "open"
        /\ op'.fn = "set"
        /\ op'.ref = Num(NameToHandle(op.ref.s))
        /\ op'.text = op.text)
          => (/\ ~crashed'
              /\ calls' = Tail(calls)
              /\ ret' = ret
              /\ varVal' = varVal)]_vars

\* C22 witness: a set by handle that stored the text in the variable
C22_Witness ==
    /\ op.fn = "set"
    /\ op.ref.t = "number"
    /\ op.ref.n \in VarHandles
    /\ Len(calls) = 2
    /\ calls[1].fn = "VAR_GetType" /\ calls[2].fn = "VAR_SetStr"
    /\ ret = <<Num(1)>>
    /\ varVal[op.ref.n] = ParseText(VarTypeOf(op.ref.n), op.text)

\* C23: once wait has blocked the watched signals they stay blocked; a
\* signal sent while they are blocked does not terminate the process and
\* becomes pending, and a pending signal only leaves the pending set as the
\* pair a wait returns.
C23_WatchedSignalsStayBlocked ==
    [][/\ sigBlocked => sigBlocked'
       /\ (sigBlocked /\ op'.fn = "signal")
              => (~crashed' /\ sigPending \subseteq sigPending' /\ sigPending' # sigPending)
       /\ \A e \in sigPending :
              e \notin sigPending'
                  => (/\ op' = [fn |-> "wait", at |-> "return"]
                      /\ ret' = <<SigNum(e.sig), Num(e.val)>>)]_vars

\* C23 witness: a signal was sent while the script runs between two waits,
\* and is pending
C23_Witness ==
    /\ op.fn = "signal"
    /\ sigBlocked /\ ~waiting /\ ~crashed
    /\ sigPending # {}

====
